---- MODULE Spec2Model ----
(***************************************************************************)
(* A model of the virtio-pmem device of this repository:                   *)
(*   vmm/src/devices/virtio/pmem/device.rs   (Pmem, ConfigSpace)           *)
(*   vmm/src/devices/virtio/pmem/persist.rs  (PmemState, save, restore)    *)
(*                                                                         *)
(* Representation.  Feature masks (u64) are sets of bit numbers.  Guest    *)
(* and host addresses and sizes are integers; every value of the model is  *)
(* far below 2^31, so no u64 operation of the code wraps on them.  The     *)
(* virtqueue (vmm/src/devices/virtio/queue.rs) is not among the sources:   *)
(* its operations are modelled from the specification's section 4.3.       *)
(***************************************************************************)
EXTENDS Integers, Sequences, FiniteSets, TLC

VARIABLES
    dev,        \* the Pmem object of the running VMM process, or NoDev
    panicked,   \* TRUE once an unwrap() of the device code has panicked
    last,       \* the last call made: its name, its result, what it returned
    avail,      \* guest memory: the chains the guest made available, in order
    used,       \* guest memory: the used ring's elements, in order
    used_idx,   \* guest memory: the used ring's idx field, which the guest reads
    status,     \* guest memory: the 32-bit word at each status address
    suppress,   \* guest memory: the guest has suppressed used-buffer notifications
    files,      \* host file system: size of each backing file, or NoFile
    snap,       \* the PmemState record written by the last save(), or NoState
    saved,      \* history: the device as it was when save() was last called
    kvm_slots,  \* the memory regions registered with the hypervisor, in order
    builder,    \* the PmemBuilder: the devices it holds, in insertion order
    created,    \* history: the configuration each held device was created with
    request,    \* the API server: the last PUT /pmem/{id} and what it parsed to
    uffd        \* the UFFD handler process: its counter, its page states, its stdout

vars == <<dev, panicked, last, avail, used, used_idx, status, suppress,
          files, snap, saved, kvm_slots, builder, created, request, uffd>>

\* what the calls on one device leave alone
rest == <<builder, created, request, uffd>>

----------------------------------------------------------------------------
(* Bounds of the model. *)

\* chains the guest submits in one behaviour
MaxHeads == 3
\* backing files span up to MaxBlocks whole 2 MiB blocks (plus a remainder)
MaxBlocks == 1
\* successful activations of one device (the eventfd counter is unbounded)
MaxActivations == 1
\* chains the guest submits in a behaviour of the lifecycle specification
MaxLifeHeads == 1

----------------------------------------------------------------------------
(* Program constants. *)

ALIGNMENT == 2097152
MEM_SLOTS_START == 10
VIRTIO_F_VERSION_1 == 32
PMEM_QUEUE_SIZE == 256
PMEM_NUM_QUEUES == 1
U16 == 65536
\* bytes of ConfigSpace: two u64
CONFIG_SPACE_SIZE == 16
\* the length add_used records for a flush request
STATUS_LEN == 4
\* the u32 written into the status descriptor
STATUS_OK == 0
\* libc::MAP_FAILED as u64 stands for the all-ones pointer
MAP_FAILED == -1

----------------------------------------------------------------------------
(* The environment: guest memory, host files, host mappings. *)

\* guest RAM is the range [0, MemSize)
MemSize == 65536
Mems == {1, 2}
NoMem == 0

\* a word the guest left in a status slot before the device wrote it
Unwritten == 255

\* the status slot the guest gives the chain whose head is descriptor i
SlotAddr(i) == 4352 + 256 * i
HeadIds == 0 .. (MaxHeads - 1)
StatusAddrs == {SlotAddr(i) : i \in HeadIds}
\* an address outside guest RAM: a write there faults
FaultAddr == MemSize
\* "no next descriptor": the chain ends at its head
NoNext == -1
Headers == {0, 1}

DescAddrs == {8192, MemSize}

NoFile == -1
Offsets == {0, 4096}
\* the sizes of a backing file: whole 2 MiB blocks, or a page more
FileSizes == {k * ALIGNMENT + o : k \in 0 .. MaxBlocks, o \in Offsets} \ {0}
HostAddr == 1879048192

FeatureSets == {{}, {VIRTIO_F_VERSION_1}}

\* vm_memory: an access of len bytes at addr lies inside guest RAM
InGuestMemory(addr, len) == addr >= 0 /\ addr + len <= MemSize

----------------------------------------------------------------------------
(* Device state. *)

NoDev == [tag |-> "none"]
NoState == [tag |-> "none"]

Inactive == [tag |-> "Inactive", mem |-> NoMem]
Activated(mem) == [tag |-> "Activated", mem |-> mem]

\* DeviceState::is_activated
is_activated(d) == d.device_state.tag = "Activated"

\* Queue::new(max_size): no addresses set, nothing consumed
Queue_new(size) ==
    [size |-> size, desc_table |-> 0, next_avail |-> 0, next_used |-> 0]

\* crate::utils::align_up: addr rounded up to a multiple of align
align_up(addr, align) == ((addr + align - 1) \div align) * align

\* x & !(align - 1) for a power of two align: clear the low bits
mask_low(x, align) == x - (x % align)

\* libc::mmap of the anchor: it fails for a zero length, and may fail otherwise
MmapResults(mapping_size) ==
    IF mapping_size = 0 THEN {MAP_FAILED} ELSE {HostAddr, MAP_FAILED}

\* Pmem::mmap_backing_file returns the anchor's address m, whatever the overlay
\* returned
mmap_backing_file(m, mapping_size, backing_file_size, shared) == m

\* Pmem::new, given the size of the file it opened and what mmap returned
new(drive_id, backing_file_path, root_device, shared, backing_file_size, m) ==
    LET mapping_size == align_up(backing_file_size, ALIGNMENT)
    IN  [ avail_features    |-> {VIRTIO_F_VERSION_1},
          acked_features    |-> {},
          activate_event    |-> 0,
          device_state      |-> Inactive,
          queues            |-> <<Queue_new(PMEM_QUEUE_SIZE)>>,
          queue_events      |-> <<0>>,
          irq_status        |-> 0,
          drive_id          |-> drive_id,
          root_device       |-> root_device,
          config_space      |-> [start |-> 0, size |-> mapping_size],
          backing_file_path |-> backing_file_path,
          backing_file_size |-> backing_file_size,
          mmaped_file       |-> mmap_backing_file(m, mapping_size,
                                                  backing_file_size, shared),
          mem_slot          |-> 0,
          shared            |-> shared ]

\* Pmem::new_with_queues, given the size of the file it opened and what mmap
\* returned
new_with_queues(queues, drive_id, backing_file_path, root_device, mem_slot, guest_address, shared, backing_file_size, m) ==
    LET mapping_size == mask_low(backing_file_size + ALIGNMENT, ALIGNMENT)
    IN  [ avail_features    |-> {VIRTIO_F_VERSION_1},
          acked_features    |-> {},
          activate_event    |-> 0,
          device_state      |-> Inactive,
          queues            |-> queues,
          queue_events      |-> <<0>>,
          irq_status        |-> 0,
          drive_id          |-> drive_id,
          root_device       |-> root_device,
          config_space      |-> [start |-> guest_address, size |-> mapping_size],
          backing_file_path |-> backing_file_path,
          backing_file_size |-> backing_file_size,
          mmaped_file       |-> mmap_backing_file(m, mapping_size,
                                                  backing_file_size, shared),
          mem_slot          |-> mem_slot,
          shared            |-> shared ]

\* The Builder's attach step (section 5 of the specification): it assigns the
\* guest address and the memory slot of a device it has built
attach(d, guest_address, mem_slot) ==
    [d EXCEPT !.config_space.start = guest_address, !.mem_slot = mem_slot]

\* what a call that returns nothing of interest leaves in `last`
Called(op, result) ==
    [op |-> op, result |-> result, irq |-> FALSE, popped |-> 0,
     logged |-> FALSE, data |-> <<>>, args |-> <<>>]

----------------------------------------------------------------------------
(* The virtqueue, as section 4.3 of the specification describes it. *)

\* Queue::initialize / Queue::is_valid: the descriptor table lies in guest RAM
Queue_is_valid(q, mem) ==
    mem \in Mems /\ InGuestMemory(q.desc_table, 16 * q.size)

\* Queue::pop_or_enable_notification: the next head the guest made available
\* and the queue past it, or no head when the device has consumed them all
Queue_pop(q) ==
    IF q.next_avail = Len(avail) % U16
        THEN [some |-> FALSE, queue |-> q]
        ELSE [some |-> TRUE, head |-> avail[q.next_avail + 1],
              queue |-> [q EXCEPT !.next_avail = (@ + 1) % U16]]

\* Queue::add_used: write the element into the used ring, not yet published
Queue_add_used(q, u, desc_index, len) ==
    IF q.size <= desc_index
        THEN [ok |-> FALSE, queue |-> q, used |-> u]
        ELSE [ok |-> TRUE,
              queue |-> [q EXCEPT !.next_used = (@ + 1) % U16],
              used |-> Append(u, [id |-> desc_index, len |-> len])]

\* Queue::advance_used_ring_idx: publish every element written so far
Queue_advance_used_ring_idx(q) == q.next_used

\* Queue::prepare_kick: the guest wants an interrupt
Queue_prepare_kick(q) == ~suppress

----------------------------------------------------------------------------
(* Virtqueue service. *)

\* the loop with a check of the request header added: a chain whose header is
\* not the flush opcode is skipped, neither written nor recorded
RECURSIVE handle_queue_loop_checks_header(_, _, _, _)
handle_queue_loop_checks_header(q, u, st, n) ==
    LET p == Queue_pop(q)
    IN  IF ~p.some
            THEN [res |-> "Ok", queue |-> q, used |-> u, status |-> st, popped |-> n]
        ELSE IF p.head.next = NoNext
            THEN [res |-> "Panic", queue |-> p.queue, used |-> u, status |-> st,
                  popped |-> n + 1]
        ELSE IF p.head.header # 0
            THEN handle_queue_loop_checks_header(p.queue, u, st, n + 1)
        ELSE IF ~InGuestMemory(p.head.next, STATUS_LEN)
            THEN [res |-> "GuestMemory", queue |-> p.queue, used |-> u,
                  status |-> st, popped |-> n + 1]
        ELSE LET st1 == [st EXCEPT ![p.head.next] = STATUS_OK]
                 a == Queue_add_used(p.queue, u, p.head.index, STATUS_LEN)
             IN  IF ~a.ok
                     THEN [res |-> "Queue", queue |-> a.queue, used |-> a.used,
                           status |-> st1, popped |-> n + 1]
                     ELSE handle_queue_loop_checks_header(a.queue, a.used, st1,
                                                          n + 1)

\* the loop with the pop undone when the status write faults: the failing
\* head stays the queue's next head
RECURSIVE handle_queue_loop_undoes_pop(_, _, _, _)
handle_queue_loop_undoes_pop(q, u, st, n) ==
    LET p == Queue_pop(q)
    IN  IF ~p.some
            THEN [res |-> "Ok", queue |-> q, used |-> u, status |-> st, popped |-> n]
        ELSE IF p.head.next = NoNext
            THEN [res |-> "Panic", queue |-> p.queue, used |-> u, status |-> st,
                  popped |-> n + 1]
        ELSE IF ~InGuestMemory(p.head.next, STATUS_LEN)
            THEN [res |-> "GuestMemory", queue |-> q, used |-> u,
                  status |-> st, popped |-> n + 1]
        ELSE LET st1 == [st EXCEPT ![p.head.next] = STATUS_OK]
                 a == Queue_add_used(p.queue, u, p.head.index, STATUS_LEN)
             IN  IF ~a.ok
                     THEN [res |-> "Queue", queue |-> a.queue, used |-> a.used,
                           status |-> st1, popped |-> n + 1]
                     ELSE handle_queue_loop_undoes_pop(a.queue, a.used, st1, n + 1)

\* the while loop of Pmem::handle_queue: q is the queue, u the used ring, st
\* the status words, n the number of heads popped so far
RECURSIVE handle_queue_loop(_, _, _, _)
handle_queue_loop(q, u, st, n) ==
    LET p == Queue_pop(q)
    IN  IF ~p.some
            THEN [res |-> "Ok", queue |-> q, used |-> u, status |-> st, popped |-> n]
        ELSE IF p.head.next = NoNext
            \* head.next_descriptor().unwrap() on None
            THEN [res |-> "Panic", queue |-> p.queue, used |-> u, status |-> st,
                  popped |-> n + 1]
        ELSE IF ~InGuestMemory(p.head.next, STATUS_LEN)
            \* mem.write_obj(0u32, status_descriptor.addr)?
            THEN [res |-> "GuestMemory", queue |-> p.queue, used |-> u,
                  status |-> st, popped |-> n + 1]
        ELSE LET st1 == [st EXCEPT ![p.head.next] = STATUS_OK]
                 a == Queue_add_used(p.queue, u, p.head.index, STATUS_LEN)
             IN  IF ~a.ok
                     \* queue.add_used(head.index, 4)?
                     THEN [res |-> "Queue", queue |-> a.queue, used |-> a.used,
                           status |-> st1, popped |-> n + 1]
                     ELSE handle_queue_loop(a.queue, a.used, st1, n + 1)

\* handle_queue that publishes only the completions of this call: the used
\* index advances by the number of heads the call popped
handle_queue_counts_own(d) ==
    LET r == handle_queue_loop(d.queues[1], used, status, 0)
    IN  IF r.res # "Ok"
            THEN [res |-> r.res, dev |-> [d EXCEPT !.queues[1] = r.queue],
                  used |-> r.used, used_idx |-> used_idx, status |-> r.status,
                  popped |-> r.popped, irq |-> FALSE]
            ELSE LET kick == Queue_prepare_kick(r.queue)
                 IN  [res |-> "Ok",
                      dev |-> [d EXCEPT !.queues[1] = r.queue,
                                        !.irq_status = IF kick THEN 1 ELSE @],
                      used |-> r.used,
                      used_idx |-> (used_idx + r.popped) % U16,
                      status |-> r.status, popped |-> r.popped, irq |-> kick]

\* handle_queue that raises the interrupt without asking prepare_kick
handle_queue_always_kicks(d) ==
    LET r == handle_queue_loop(d.queues[1], used, status, 0)
    IN  IF r.res # "Ok"
            THEN [res |-> r.res, dev |-> [d EXCEPT !.queues[1] = r.queue],
                  used |-> r.used, used_idx |-> used_idx, status |-> r.status,
                  popped |-> r.popped, irq |-> FALSE]
            ELSE [res |-> "Ok",
                  dev |-> [d EXCEPT !.queues[1] = r.queue, !.irq_status = 1],
                  used |-> r.used,
                  used_idx |-> Queue_advance_used_ring_idx(r.queue),
                  status |-> r.status, popped |-> r.popped, irq |-> TRUE]

\* Pmem::handle_queue on device d: the device, the guest memory it leaves, its
\* result, and whether it raised a vring interrupt
handle_queue(d) ==
    LET r == handle_queue_loop(d.queues[1], used, status, 0)
    IN  IF r.res # "Ok"
            THEN [res |-> r.res, dev |-> [d EXCEPT !.queues[1] = r.queue],
                  used |-> r.used, used_idx |-> used_idx, status |-> r.status,
                  popped |-> r.popped, irq |-> FALSE]
            ELSE LET kick == Queue_prepare_kick(r.queue)
                 IN  [res |-> "Ok",
                      dev |-> [d EXCEPT !.queues[1] = r.queue,
                                        !.irq_status = IF kick THEN 1 ELSE @],
                      used |-> r.used,
                      used_idx |-> Queue_advance_used_ring_idx(r.queue),
                      status |-> r.status, popped |-> r.popped, irq |-> kick]

\* process_queue that deactivates the device when the kick eventfd cannot be
\* read
process_queue_deactivates(d) ==
    IF d.queue_events[1] = 0
        THEN [res |-> "EventFd", dev |-> [d EXCEPT !.device_state = Inactive],
              used |-> used, used_idx |-> used_idx,
              status |-> status, popped |-> 0, irq |-> FALSE]
        ELSE handle_queue([d EXCEPT !.queue_events[1] = 0])

\* Pmem::process_queue on device d: drain the kick eventfd, then handle_queue
process_queue(d) ==
    IF d.queue_events[1] = 0
        \* self.queue_events[0].read() fails: nothing was written to it
        THEN [res |-> "EventFd", dev |-> d, used |-> used, used_idx |-> used_idx,
              status |-> status, popped |-> 0, irq |-> FALSE]
        ELSE handle_queue([d EXCEPT !.queue_events[1] = 0])

----------------------------------------------------------------------------
(* The virtio transport contract (impl VirtioDevice for Pmem). *)

\* Pmem::set_acked_features
set_acked_features(d, acked_features) ==
    [d EXCEPT !.acked_features = acked_features]

\* activate with the state assigned before the eventfd is written: a failed
\* write leaves the device Activated
activate_state_first(d, mem, write_ok) ==
    IF \E i \in 1 .. Len(d.queues) : ~Queue_is_valid(d.queues[i], mem)
        THEN [res |-> "QueueMemoryError", dev |-> d]
    ELSE IF ~write_ok
        THEN [res |-> "EventFd", dev |-> [d EXCEPT !.device_state = Activated(mem)]]
    ELSE [res |-> "Ok",
          dev |-> [d EXCEPT !.activate_event = @ + 1,
                            !.device_state = Activated(mem)]]

\* Pmem::activate with guest memory mem; write_ok: the write to the activation
\* eventfd succeeds
activate(d, mem, write_ok) ==
    IF \E i \in 1 .. Len(d.queues) : ~Queue_is_valid(d.queues[i], mem)
        THEN [res |-> "QueueMemoryError", dev |-> d]
    ELSE IF ~write_ok
        THEN [res |-> "EventFd", dev |-> d]
    ELSE [res |-> "Ok",
          dev |-> [d EXCEPT !.activate_event = @ + 1,
                            !.device_state = Activated(mem)]]

\* byte i (0 = least significant) of the little-endian u64 x
RECURSIVE le_byte(_, _)
le_byte(x, i) == IF i = 0 THEN x % 256 ELSE le_byte(x \div 256, i - 1)

\* ConfigSpace::as_slice: start, then size, each as 8 little-endian bytes
as_slice(c) ==
    [i \in 1 .. CONFIG_SPACE_SIZE |->
        IF i <= 8 THEN le_byte(c.start, i - 1) ELSE le_byte(c.size, i - 9)]

\* read_config that clears the part of the buffer it has no bytes for
read_config_zero_fills(d, offset, data) ==
    IF offset > CONFIG_SPACE_SIZE
        THEN [ok |-> FALSE, data |-> [i \in 1 .. Len(data) |-> 0]]
        ELSE LET bytes == as_slice(d.config_space)
                 avail_len == CONFIG_SPACE_SIZE - offset
                 len == IF avail_len < Len(data) THEN avail_len ELSE Len(data)
             IN  [ok |-> TRUE,
                  data |-> [i \in 1 .. Len(data) |->
                              IF i <= len THEN bytes[offset + i] ELSE 0]]

\* write_config that stores the first byte written at offset 0 into start
write_config_stores(d, offset, data) ==
    IF offset = 0 /\ Len(data) > 0
        THEN [d EXCEPT !.config_space.start = data[1]]
        ELSE d

\* Pmem::read_config: the buffer data after the call, and whether the read
\* was inside the config space
read_config(d, offset, data) ==
    IF offset > CONFIG_SPACE_SIZE
        THEN [ok |-> FALSE, data |-> data]
        ELSE LET bytes == as_slice(d.config_space)
                 avail_len == CONFIG_SPACE_SIZE - offset
                 len == IF avail_len < Len(data) THEN avail_len ELSE Len(data)
             IN  [ok |-> TRUE,
                  data |-> [i \in 1 .. Len(data) |->
                              IF i <= len THEN bytes[offset + i] ELSE data[i]]]

\* Pmem::write_config: the empty body
write_config(d, offset, data) == d

----------------------------------------------------------------------------
(* Snapshot (impl Persist for Pmem). *)

\* the virtio device type of pmem
TYPE_PMEM == 27

\* VirtioDeviceState::from_device
from_device(d) ==
    [ device_type      |-> TYPE_PMEM,
      avail_features   |-> d.avail_features,
      acked_features   |-> d.acked_features,
      queues           |-> d.queues,
      interrupt_status |-> d.irq_status,
      activated        |-> is_activated(d) ]

\* VirtioDeviceState::build_queues_checked: the saved queues, when they are the
\* expected number of queues of the expected type and size and valid in mem
build_queues_checked(vs, mem, expected_type, expected_num, expected_size) ==
    IF /\ vs.device_type = expected_type
       /\ Len(vs.queues) = expected_num
       /\ \A i \in 1 .. Len(vs.queues) :
            /\ vs.queues[i].size <= expected_size
            /\ Queue_is_valid(vs.queues[i], mem)
        THEN [ok |-> TRUE, queues |-> vs.queues]
        ELSE [ok |-> FALSE, queues |-> <<>>]

\* Pmem::save
save(d) ==
    [ virtio_state      |-> from_device(d),
      drive_id          |-> d.drive_id,
      root_device       |-> d.root_device,
      backing_file_path |-> d.backing_file_path,
      guest_address     |-> d.config_space.start,
      mem_slot          |-> d.mem_slot,
      shared            |-> d.shared ]

\* the kvm_userspace_memory_region Pmem::set_mem_region hands to the hypervisor
set_mem_region(d) ==
    [ slot            |-> d.mem_slot,
      guest_phys_addr |-> d.config_space.start,
      memory_size     |-> d.config_space.size,
      userspace_addr  |-> d.mmaped_file,
      flags           |-> 0 ]

\* KVM_SET_USER_MEMORY_REGION rejects an empty region and a host address that
\* is not page aligned, as MAP_FAILED is not
KvmAccepts(region) ==
    region.memory_size # 0 /\ region.userspace_addr # MAP_FAILED

\* restore that leaves the acknowledged features of the rebuilt device at the
\* constructor's 0
restore_drops_acked(mem, state, fsize, m, kvm_ok) ==
    LET qs == build_queues_checked(state.virtio_state, mem, TYPE_PMEM,
                                   PMEM_NUM_QUEUES, PMEM_QUEUE_SIZE)
    IN  IF ~qs.ok
            THEN [res |-> "VirtioState", dev |-> NoDev, regions |-> <<>>]
        ELSE IF fsize = NoFile
            THEN [res |-> "BackingFileIo", dev |-> NoDev, regions |-> <<>>]
        ELSE LET pmem == new_with_queues(qs.queues, state.drive_id,
                                         state.backing_file_path,
                                         state.root_device, state.mem_slot,
                                         state.guest_address, state.shared,
                                         fsize, m)
             IN  IF ~(kvm_ok /\ KvmAccepts(set_mem_region(pmem)))
                     THEN [res |-> "Panic", dev |-> NoDev, regions |-> <<>>]
                     ELSE [res |-> "Ok",
                           dev |-> [pmem EXCEPT
                               !.avail_features = state.virtio_state.avail_features,
                               !.irq_status = state.virtio_state.interrupt_status,
                               !.device_state =
                                   IF state.virtio_state.activated
                                       THEN Activated(mem) ELSE @],
                           regions |-> <<set_mem_region(pmem)>>]

\* restore that registers the memory slot before it validates the queues
\* and opens the file
restore_registers_first(mem, state, fsize, m, kvm_ok) ==
    LET qs == build_queues_checked(state.virtio_state, mem, TYPE_PMEM,
                                   PMEM_NUM_QUEUES, PMEM_QUEUE_SIZE)
    IN  IF ~qs.ok
            THEN [res |-> "VirtioState", dev |-> NoDev,
                  regions |-> <<[slot |-> state.mem_slot,
                               guest_phys_addr |-> state.guest_address,
                               memory_size |-> 0, userspace_addr |-> 0,
                               flags |-> 0]>>]
        ELSE IF fsize = NoFile
            THEN [res |-> "BackingFileIo", dev |-> NoDev,
                  regions |-> <<[slot |-> state.mem_slot,
                               guest_phys_addr |-> state.guest_address,
                               memory_size |-> 0, userspace_addr |-> 0,
                               flags |-> 0]>>]
        ELSE LET pmem == new_with_queues(qs.queues, state.drive_id,
                                         state.backing_file_path,
                                         state.root_device, state.mem_slot,
                                         state.guest_address, state.shared,
                                         fsize, m)
             IN  IF ~(kvm_ok /\ KvmAccepts(set_mem_region(pmem)))
                     THEN [res |-> "Panic", dev |-> NoDev, regions |-> <<>>]
                     ELSE [res |-> "Ok",
                           dev |-> [pmem EXCEPT
                               !.avail_features = state.virtio_state.avail_features,
                               !.acked_features = state.virtio_state.acked_features,
                               !.irq_status = state.virtio_state.interrupt_status,
                               !.device_state =
                                   IF state.virtio_state.activated
                                       THEN Activated(mem) ELSE @],
                           regions |-> <<set_mem_region(pmem)>>]

\* restore that signals the activation eventfd of a device saved as activated
restore_replays_activate(mem, state, fsize, m, kvm_ok) ==
    LET qs == build_queues_checked(state.virtio_state, mem, TYPE_PMEM,
                                   PMEM_NUM_QUEUES, PMEM_QUEUE_SIZE)
    IN  IF ~qs.ok
            THEN [res |-> "VirtioState", dev |-> NoDev, regions |-> <<>>]
        ELSE IF fsize = NoFile
            THEN [res |-> "BackingFileIo", dev |-> NoDev, regions |-> <<>>]
        ELSE LET pmem == new_with_queues(qs.queues, state.drive_id,
                                         state.backing_file_path,
                                         state.root_device, state.mem_slot,
                                         state.guest_address, state.shared,
                                         fsize, m)
             IN  IF ~(kvm_ok /\ KvmAccepts(set_mem_region(pmem)))
                     THEN [res |-> "Panic", dev |-> NoDev, regions |-> <<>>]
                     ELSE [res |-> "Ok",
                           dev |-> [pmem EXCEPT
                               !.avail_features = state.virtio_state.avail_features,
                               !.acked_features = state.virtio_state.acked_features,
                               !.irq_status = state.virtio_state.interrupt_status,
                               !.activate_event =
                                   IF state.virtio_state.activated THEN 1 ELSE @,
                               !.device_state =
                                   IF state.virtio_state.activated
                                       THEN Activated(mem) ELSE @],
                           regions |-> <<set_mem_region(pmem)>>]

\* Pmem::restore from state with guest memory mem; fsize is the size of the
\* file at state.backing_file_path (NoFile: it cannot be opened), m what mmap
\* returns, kvm_ok whether the hypervisor has room for one more region
restore(mem, state, fsize, m, kvm_ok) ==
    LET qs == build_queues_checked(state.virtio_state, mem, TYPE_PMEM,
                                   PMEM_NUM_QUEUES, PMEM_QUEUE_SIZE)
    IN  IF ~qs.ok
            THEN [res |-> "VirtioState", dev |-> NoDev, regions |-> <<>>]
        ELSE IF fsize = NoFile
            THEN [res |-> "BackingFileIo", dev |-> NoDev, regions |-> <<>>]
        ELSE LET pmem == new_with_queues(qs.queues, state.drive_id,
                                         state.backing_file_path,
                                         state.root_device, state.mem_slot,
                                         state.guest_address, state.shared,
                                         fsize, m)
             IN  IF ~(kvm_ok /\ KvmAccepts(set_mem_region(pmem)))
                     \* set_user_memory_region(..).unwrap()
                     THEN [res |-> "Panic", dev |-> NoDev, regions |-> <<>>]
                     ELSE [res |-> "Ok",
                           dev |-> [pmem EXCEPT
                               !.avail_features = state.virtio_state.avail_features,
                               !.acked_features = state.virtio_state.acked_features,
                               !.irq_status = state.virtio_state.interrupt_status,
                               !.device_state =
                                   IF state.virtio_state.activated
                                       THEN Activated(mem) ELSE @],
                           regions |-> <<set_mem_region(pmem)>>]

----------------------------------------------------------------------------
(* Actions.  Every action is one call on the device, or one step of the     *)
(* guest driver or of the host around it.  The event loop calls into a      *)
(* device only while its process lives (no panic so far).                   *)

Alive == ~panicked /\ dev # NoDev

\* what the snapshot tests read from a device: the fields section 8 of the
\* specification compares across save and restore
observe(d) ==
    [ drive_id          |-> d.drive_id,
      root_device       |-> d.root_device,
      backing_file_path |-> d.backing_file_path,
      backing_file_size |-> d.backing_file_size,
      config_space      |-> d.config_space,
      mem_slot          |-> d.mem_slot,
      shared            |-> d.shared,
      avail_features    |-> d.avail_features,
      acked_features    |-> d.acked_features,
      activated         |-> is_activated(d),
      desc_tables       |-> [i \in 1 .. Len(d.queues) |-> d.queues[i].desc_table] ]

\* activate(mem), called by the transport when the driver sets DRIVER_OK
Activate(mem, write_ok) ==
    /\ Alive
    /\ dev.activate_event < MaxActivations
    /\ LET r == activate(dev, mem, write_ok)
       IN  /\ dev' = r.dev
           /\ last' = Called("activate", r.res)
    /\ UNCHANGED <<panicked, avail, used, used_idx, status, suppress, files,
                   snap, saved, kvm_slots>>
    /\ UNCHANGED rest

\* set_acked_features(features), called by the transport
SetAckedFeatures(features) ==
    /\ Alive
    /\ dev' = set_acked_features(dev, features)
    /\ last' = Called("set_acked_features", "Ok")
    /\ UNCHANGED <<panicked, avail, used, used_idx, status, suppress, files,
                   snap, saved, kvm_slots>>
    /\ UNCHANGED rest

\* a byte the caller's buffer holds before read_config fills it
Filler == 170
ReadOffsets == {0, 12, 17}
ReadLens == {8}

\* read_config(offset, data) with a buffer of n filler bytes
ReadConfig(offset, n) ==
    /\ Alive
    /\ LET r == read_config(dev, offset, [i \in 1 .. n |-> Filler])
       IN  last' = [Called("read_config", IF r.ok THEN "Ok" ELSE "OutOfRange")
                        EXCEPT !.logged = ~r.ok, !.data = r.data,
                               !.args = <<offset, n>>]
    /\ UNCHANGED <<dev, panicked, avail, used, used_idx, status, suppress,
                   files, snap, saved, kvm_slots>>
    /\ UNCHANGED rest

\* write_config(offset, data)
WriteConfig(offset, data) ==
    /\ Alive
    /\ dev' = write_config(dev, offset, data)
    /\ last' = [Called("write_config", "Ok") EXCEPT !.args = <<offset, data>>]
    /\ UNCHANGED <<panicked, avail, used, used_idx, status, suppress, files,
                   snap, saved, kvm_slots>>
    /\ UNCHANGED rest

\* the driver programs the descriptor-table address of queue 0 through the
\* transport (queues_mut), which it may do only before activation
GuestSetQueue(addr) ==
    /\ Alive
    /\ ~is_activated(dev)
    /\ dev.queues[1].desc_table # addr
    /\ dev' = [dev EXCEPT !.queues[1].desc_table = addr]
    /\ last' = Called("guest_set_queue", "Ok")
    /\ UNCHANGED <<panicked, avail, used, used_idx, status, suppress, files,
                   snap, saved, kvm_slots>>
    /\ UNCHANGED rest

\* the chains a driver can build on head descriptor i: a flush request whose
\* status descriptor is its own slot, one whose status descriptor lies outside
\* guest RAM, and a chain of the head alone
Chains(i) ==
    {[index |-> i, header |-> h, next |-> SlotAddr(i)] : h \in Headers}
    \cup {[index |-> i, header |-> 0, next |-> a] : a \in {FaultAddr, NoNext}}

\* the driver makes one more chain available, up to max chains
GuestSubmit(chain, max) ==
    /\ Alive
    /\ Len(avail) < max
    /\ \A k \in 1 .. Len(avail) : avail[k].index # chain.index
    /\ avail' = Append(avail, chain)
    /\ last' = Called("guest_submit", "Ok")
    /\ UNCHANGED <<dev, panicked, used, used_idx, status, suppress, files,
                   snap, saved, kvm_slots>>
    /\ UNCHANGED rest

\* the driver kicks queue 0: the hypervisor writes the queue's eventfd
GuestKick ==
    /\ Alive
    /\ dev.queue_events[1] = 0
    /\ dev' = [dev EXCEPT !.queue_events[1] = 1]
    /\ last' = Called("guest_kick", "Ok")
    /\ UNCHANGED <<panicked, avail, used, used_idx, status, suppress, files,
                   snap, saved, kvm_slots>>
    /\ UNCHANGED rest

\* the driver suppresses or re-enables used-buffer notifications
GuestSuppress(b) ==
    /\ Alive
    /\ suppress # b
    /\ suppress' = b
    /\ last' = Called("guest_suppress", "Ok")
    /\ UNCHANGED <<dev, panicked, avail, used, used_idx, status, files, snap,
                   saved, kvm_slots>>
    /\ UNCHANGED rest

\* process_queue(), which the event handler calls on an activated device only
\* (device.rs line 235)
ProcessQueue ==
    /\ Alive
    /\ is_activated(dev)
    /\ LET r == process_queue(dev)
       IN  /\ dev' = r.dev
           /\ used' = r.used
           /\ used_idx' = r.used_idx
           /\ status' = r.status
           /\ panicked' = (r.res = "Panic")
           /\ last' = [Called("process_queue", r.res) EXCEPT
                          !.irq = r.irq, !.popped = r.popped,
                          !.logged = (r.res \notin {"Ok", "Panic"})]
    /\ UNCHANGED <<avail, suppress, files, snap, saved, kvm_slots>>
    /\ UNCHANGED rest

\* save()
Save ==
    /\ Alive
    /\ snap' = save(dev)
    /\ saved' = observe(dev)
    /\ last' = Called("save", "Ok")
    /\ UNCHANGED <<dev, panicked, avail, used, used_idx, status, suppress,
                   files, kvm_slots>>
    /\ UNCHANGED rest

\* restore(), in a fresh VMM process with a fresh VM: the process that saved
\* the state is gone, and so is the device it held
Restore(mem, m, kvm_ok) ==
    /\ snap # NoState
    /\ LET r == restore(mem, snap, files[snap.backing_file_path], m, kvm_ok)
       IN  /\ dev' = r.dev
           /\ kvm_slots' = r.regions
           /\ panicked' = (r.res = "Panic")
           /\ last' = [Called("restore", r.res) EXCEPT
                          !.logged = (r.res \notin {"Ok", "Panic"}),
                          !.args = <<mem, m>>]
    /\ UNCHANGED <<avail, used, used_idx, status, suppress, files, snap, saved>>
    /\ UNCHANGED rest

\* the host appends to the backing file of the saved device while no VMM
\* process has it mapped for a running guest: the file at p grows to size
FileGrow(p, size) ==
    /\ snap # NoState
    /\ p = snap.backing_file_path
    /\ files[p] # NoFile
    /\ files[p] < size
    /\ files' = [files EXCEPT ![p] = size]
    /\ last' = [Called("file_grow", "Ok") EXCEPT !.args = <<p, size>>]
    /\ UNCHANGED <<dev, panicked, avail, used, used_idx, status, suppress,
                   snap, saved, kvm_slots>>
    /\ UNCHANGED rest

\* the host removes the backing file of the saved device
FileRemove(p) ==
    /\ snap # NoState
    /\ p = snap.backing_file_path
    /\ files[p] # NoFile
    /\ files' = [files EXCEPT ![p] = NoFile]
    /\ last' = [Called("file_remove", "Ok") EXCEPT !.args = <<p>>]
    /\ UNCHANGED <<dev, panicked, avail, used, used_idx, status, suppress,
                   snap, saved, kvm_slots>>
    /\ UNCHANGED rest

\* the Builder attaches the k-th device of the VM: slot MEM_SLOTS_START + k,
\* guest address on the next 2 MiB boundary
SlotIndexes == {0, 1}
GuestBase == 1073741824

Attach(k) ==
    /\ Alive
    /\ dev.mem_slot = 0
    /\ ~is_activated(dev)
    /\ dev' = attach(dev, GuestBase + k * ALIGNMENT, MEM_SLOTS_START + k)
    /\ last' = Called("attach", "Ok")
    /\ UNCHANGED <<panicked, avail, used, used_idx, status, suppress, files,
                   snap, saved, kvm_slots>>
    /\ UNCHANGED rest

----------------------------------------------------------------------------
(* The parts of the VMM around the device, before anything has used them. *)

\* PmemBuilder::new: the default, a collection of no device
PmemBuilder_new == [devices |-> <<>>]

\* no request has reached the API server
NoRequest == [tag |-> "none"]

\* the handler process as main() starts it: counter 0, nothing printed, no
\* page served or removed; events is the history of the events it has read
Handler_new ==
    [page_fault_counter |-> 0, stdout |-> <<>>, served |-> {}, removed |-> {},
     running |-> TRUE, events |-> <<>>]

Elsewhere ==
    /\ builder = PmemBuilder_new
    /\ created = <<>>
    /\ request = NoRequest
    /\ uffd = Handler_new

----------------------------------------------------------------------------
(* Spec: one device in service.  The device of scenario 1 (a 4096-byte      *)
(* private backing file at guest address 0x40000000) is activated, kicked   *)
(* and saved.                                                               *)

Paths == {"/pmem0.img", "/pmem1.img"}

GuestEmpty ==
    /\ avail = <<>>
    /\ used = <<>>
    /\ used_idx = 0
    /\ status = [a \in StatusAddrs |-> Unwritten]
    /\ suppress = FALSE

Init ==
    /\ dev = attach(new("pmem0", "/pmem0.img", FALSE, FALSE, 4096, HostAddr),
                    GuestBase, MEM_SLOTS_START)
    /\ panicked = FALSE
    /\ last = Called("new", "Ok")
    /\ GuestEmpty
    /\ files = [p \in Paths |-> 4096]
    /\ snap = NoState
    /\ saved = NoState
    /\ kvm_slots = <<>>
    /\ Elsewhere

Next ==
    \/ \E write_ok \in BOOLEAN : Activate(1, write_ok)
    \/ \E i \in HeadIds : \E c \in Chains(i) : GuestSubmit(c, MaxHeads)
    \/ GuestKick
    \/ \E b \in BOOLEAN : GuestSuppress(b)
    \/ ProcessQueue

Spec == Init /\ [][Next]_vars

\* The same device under a driver that kicks again whenever the queue's
\* eventfd is idle, and an event loop that runs process_queue() whenever a
\* device is activated: the epoll loop of the VMM does not starve a handler.
SpecFair == Spec /\ WF_vars(GuestKick) /\ WF_vars(ProcessQueue)

----------------------------------------------------------------------------
(* SpecLife: the life of one device under every call of the transport       *)
(* contract, with a queue the driver programs itself.                       *)

NextLife ==
    \/ \E mem \in Mems, write_ok \in BOOLEAN : Activate(mem, write_ok)
    \/ \E f \in FeatureSets : SetAckedFeatures(f)
    \/ \E o \in ReadOffsets, n \in ReadLens : ReadConfig(o, n)
    \/ \E o \in ReadOffsets : WriteConfig(o, <<1, 2, 3, 4>>)
    \/ \E a \in DescAddrs : GuestSetQueue(a)
    \/ \E i \in 0 .. (MaxLifeHeads - 1) : \E c \in Chains(i) :
          GuestSubmit(c, MaxLifeHeads)
    \/ GuestKick
    \/ ProcessQueue
    \/ Save

SpecLife == Init /\ [][NextLife]_vars

----------------------------------------------------------------------------
(* SpecPersist: a device built from any configuration over any backing     *)
(* file, attached, activated, saved and restored.                           *)

\* the PmemDeviceConfig records handed to the Builder
Configs ==
    {[drive_id |-> d[1], path_on_host |-> d[2], is_root_device |-> d[3],
      shared |-> sh] :
        d \in {<<"pmem0", "/pmem0.img", FALSE>>, <<"pmem1", "/pmem1.img", TRUE>>},
        sh \in BOOLEAN}

InitPersist ==
    \E c \in Configs, size \in FileSizes :
        \E m \in MmapResults(align_up(size, ALIGNMENT)) :
            /\ files = [p \in Paths |-> IF p = c.path_on_host THEN size ELSE 4096]
            /\ dev = new(c.drive_id, c.path_on_host, c.is_root_device, c.shared,
                         files[c.path_on_host], m)
            /\ panicked = FALSE
            /\ last = Called("new", "Ok")
            /\ GuestEmpty
            /\ snap = NoState
            /\ saved = NoState
            /\ kvm_slots = <<>>
            /\ Elsewhere

NextPersist ==
    \/ \E k \in SlotIndexes : Attach(k)
    \/ \E a \in DescAddrs : GuestSetQueue(a)
    \/ \E mem \in Mems, write_ok \in BOOLEAN : Activate(mem, write_ok)
    \/ \E f \in FeatureSets : SetAckedFeatures(f)
    \/ Save
    \/ \E mem \in Mems, m \in {HostAddr, MAP_FAILED}, kvm_ok \in BOOLEAN :
          Restore(mem, m, kvm_ok)

SpecPersist == InitPersist /\ [][NextPersist]_vars

----------------------------------------------------------------------------
(* SpecGrow: a device is saved, its backing file grows or disappears on    *)
(* the host, and it is restored.                                           *)

NextGrow ==
    \/ \E k \in SlotIndexes : Attach(k)
    \/ \E a \in DescAddrs : GuestSetQueue(a)
    \/ Save
    \/ \E p \in Paths, size \in FileSizes : FileGrow(p, size)
    \/ \E p \in Paths : FileRemove(p)
    \/ \E mem \in Mems, m \in {HostAddr, MAP_FAILED}, kvm_ok \in BOOLEAN :
          Restore(mem, m, kvm_ok)

SpecGrow == InitPersist /\ [][NextGrow]_vars

----------------------------------------------------------------------------
(* SpecConfig: the transport reads and writes the config space of a device  *)
(* built over any backing file, before and after it is attached.            *)

\* offsets and buffer lengths of the config accesses: inside the record,
\* across its end, at its end and past it
ConfigOffsets == {0, 4, 8, 12, 16, 17}
ConfigLens == {4, 16, 20}
WriteData == {<<1, 2, 3, 4>>, <<255, 255, 255, 255, 255, 255, 255, 255>>}

NextConfig ==
    \/ \E k \in SlotIndexes : Attach(k)
    \/ \E o \in ConfigOffsets, n \in ConfigLens : ReadConfig(o, n)
    \/ \E o \in ConfigOffsets, data \in WriteData : WriteConfig(o, data)

SpecConfig == InitPersist /\ [][NextConfig]_vars

----------------------------------------------------------------------------
(* SpecBuilder: the PmemBuilder of vmm_config/pmem.rs, building devices     *)
(* over backing files that exist or not, and reporting their configs.       *)

\* devices one PmemBuilder holds in a behaviour
MaxDevices == 2

\* Pmem::config with is_root_device taken from the device
config_reports_root(d) ==
    [ drive_id       |-> d.drive_id,
      path_on_host   |-> d.backing_file_path,
      is_root_device |-> d.root_device,
      shared         |-> d.shared ]

\* Pmem::config
config(d) ==
    [ drive_id       |-> d.drive_id,
      path_on_host   |-> d.backing_file_path,
      is_root_device |-> FALSE,
      shared         |-> d.shared ]

\* PmemBuilder::build; fsize is the size of the file at config.path_on_host
\* (NoFile: it cannot be opened), m what mmap returns
build(b, cfg, fsize, m) ==
    IF fsize = NoFile
        \* Pmem::new(..)? returns PmemError::BackingFileIo before the push
        THEN [res |-> "BackingFileIo", builder |-> b]
        ELSE [res |-> "Ok",
              builder |-> [b EXCEPT !.devices =
                  Append(@, new(cfg.drive_id, cfg.path_on_host,
                                cfg.is_root_device, cfg.shared, fsize, m))]]

\* PmemBuilder::add_device
add_device(b, device) == [b EXCEPT !.devices = Append(@, device)]

\* PmemBuilder::configs
configs(b) == [i \in 1 .. Len(b.devices) |-> config(b.devices[i])]

\* build(config) on the VMM's builder
Build(cfg, m) ==
    /\ Len(builder.devices) < MaxDevices
    /\ LET r == build(builder, cfg, files[cfg.path_on_host], m)
       IN  /\ builder' = r.builder
           /\ created' = IF r.res = "Ok" THEN Append(created, cfg) ELSE created
           /\ last' = [Called("build", r.res) EXCEPT
                          !.logged = (r.res # "Ok"), !.args = <<cfg, m>>]
    /\ UNCHANGED <<dev, panicked, avail, used, used_idx, status, suppress,
                   files, snap, saved, kvm_slots, request, uffd>>

\* add_device(handle), with a handle to a device Pmem::new made from cfg
AddDevice(cfg, m) ==
    /\ Len(builder.devices) < MaxDevices
    /\ files[cfg.path_on_host] # NoFile
    /\ builder' = add_device(builder,
                             new(cfg.drive_id, cfg.path_on_host,
                                 cfg.is_root_device, cfg.shared,
                                 files[cfg.path_on_host], m))
    /\ created' = Append(created, cfg)
    /\ last' = [Called("add_device", "Ok") EXCEPT !.args = <<cfg, m>>]
    /\ UNCHANGED <<dev, panicked, avail, used, used_idx, status, suppress,
                   files, snap, saved, kvm_slots, request, uffd>>

\* configs(), which renders the VMM configuration
GetConfigs ==
    /\ last' = [Called("configs", "Ok") EXCEPT !.data = configs(builder)]
    /\ UNCHANGED <<dev, panicked, avail, used, used_idx, status, suppress,
                   files, snap, saved, kvm_slots, builder, created, request,
                   uffd>>

InitBuilder ==
    /\ files \in [Paths -> FileSizes \cup {NoFile}]
    /\ dev = NoDev
    /\ panicked = FALSE
    /\ last = Called("new", "Ok")
    /\ GuestEmpty
    /\ snap = NoState
    /\ saved = NoState
    /\ kvm_slots = <<>>
    /\ Elsewhere

NextBuilder ==
    \/ \E cfg \in Configs, m \in {HostAddr, MAP_FAILED} : Build(cfg, m)
    \/ \E cfg \in Configs, m \in {HostAddr, MAP_FAILED} : AddDevice(cfg, m)
    \/ GetConfigs

SpecBuilder == InitBuilder /\ [][NextBuilder]_vars

----------------------------------------------------------------------------
(* SpecApi: the API server parses PUT /pmem/{id} requests                   *)
(* (firecracker/src/api_server/request/pmem.rs).  A string is a sequence of *)
(* characters; a body is the bytes of a JSON object, given as its members   *)
(* in order, or bytes that are no JSON.                                     *)

Alphanumeric == {"p", "0", "1"}
Str(chars) == [type |-> "string", v |-> chars]
Bool(b) == [type |-> "bool", v |-> b]
Id_p0 == <<"p", "0">>
Id_p1 == <<"p", "_", "1">>
Id_bad == <<"p", " ">>
Path_a == <<"a">>

\* id_from_path: Option<&str>
None == [some |-> FALSE, v |-> <<>>]
Some(x) == [some |-> TRUE, v |-> x]
PathIds == {None, Some(<<>>), Some(Id_p0), Some(Id_p1), Some(Id_bad),
            Some(<<"0">>), Some(<<"1", "1">>)}

\* JSON object bodies with the four fields of PmemDeviceConfig
FullBody(id, root, sh) ==
    [json |-> TRUE,
     members |-> << <<"drive_id", Str(id)>>, <<"path_on_host", Str(Path_a)>>,
                    <<"is_root_device", Bool(root)>>, <<"shared", Bool(sh)>> >>]

Bodies ==
    {FullBody(id, root, sh) : id \in {Id_p0, Id_p1, Id_bad}, root \in BOOLEAN,
                              sh \in BOOLEAN}
    \cup
    { \* not JSON
      [json |-> FALSE, members |-> <<>>],
      \* a field is missing
      [json |-> TRUE,
       members |-> << <<"drive_id", Str(Id_p0)>>, <<"path_on_host", Str(Path_a)>>,
                      <<"is_root_device", Bool(FALSE)>> >>],
      \* a field PmemDeviceConfig does not have
      [json |-> TRUE,
       members |-> << <<"drive_id", Str(Id_p0)>>, <<"path_on_host", Str(Path_a)>>,
                      <<"is_root_device", Bool(FALSE)>>, <<"shared", Bool(FALSE)>>,
                      <<"size", Str(<<"1">>)>> >>],
      \* a field of the wrong type
      [json |-> TRUE,
       members |-> << <<"drive_id", Str(Id_p0)>>, <<"path_on_host", Str(Path_a)>>,
                      <<"is_root_device", Str(<<"1">>)>>, <<"shared", Bool(FALSE)>> >>],
      \* a field given twice
      [json |-> TRUE,
       members |-> << <<"drive_id", Str(Id_p0)>>, <<"drive_id", Str(Id_p1)>>,
                      <<"path_on_host", Str(Path_a)>>,
                      <<"is_root_device", Bool(FALSE)>>, <<"shared", Bool(FALSE)>> >>] }

\* parsed_request::checked_id: a non-empty identifier of alphanumeric
\* characters and underscores
checked_id(id) ==
    IF id = <<>> THEN [ok |-> FALSE, error |-> "EmptyID"]
    ELSE IF \E i \in 1 .. Len(id) : id[i] \notin Alphanumeric \cup {"_"}
        THEN [ok |-> FALSE, error |-> "InvalidID"]
    ELSE [ok |-> TRUE, error |-> "none"]

\* the fields of PmemDeviceConfig and their types
FieldTypes ==
    [drive_id |-> "string", path_on_host |-> "string",
     is_root_device |-> "bool", shared |-> "bool"]

\* serde_json::from_slice::<PmemDeviceConfig> under deny_unknown_fields: every
\* member is a field of the struct with a value of its type, no field is given
\* twice and none is missing
from_slice(body) ==
    LET ms == body.members
        Known == DOMAIN FieldTypes
        At(f) == CHOOSE i \in 1 .. Len(ms) : ms[i][1] = f
    IN  IF /\ body.json
           /\ \A i \in 1 .. Len(ms) :
                 /\ ms[i][1] \in Known
                 /\ ms[i][2].type = FieldTypes[ms[i][1]]
           /\ \A i, j \in 1 .. Len(ms) : ms[i][1] = ms[j][1] => i = j
           /\ \A f \in Known : \E i \in 1 .. Len(ms) : ms[i][1] = f
            THEN [ok |-> TRUE, cfg |-> [f \in Known |-> ms[At(f)][2].v]]
            ELSE [ok |-> FALSE, cfg |-> [f \in {} |-> 0]]

NoAction == [kind |-> "none"]
NoError == [kind |-> "none"]
BadRequest == "400 Bad Request"
IdMismatch == "The id from the path does not match the id from the body!"

\* what parse_put_pmem returns: Ok(ParsedRequest) with its action, or
\* Err(RequestError); drive_fails is what the call adds to that metric
Parsed(action, error, drive_fails) ==
    [res |-> IF error = NoError THEN "Ok" ELSE "Err",
     action |-> action, error |-> error,
     drive_count |-> 1, drive_fails |-> drive_fails]

\* parse_put_pmem that does not compare the id of the path with the body's
parse_put_pmem_trusts_body(body, id_from_path) ==
    IF ~id_from_path.some
        THEN Parsed(NoAction, [kind |-> "EmptyID"], 1)
    ELSE IF ~checked_id(id_from_path.v).ok
        THEN Parsed(NoAction, [kind |-> checked_id(id_from_path.v).error], 0)
    ELSE IF ~from_slice(body).ok
        THEN Parsed(NoAction, [kind |-> "SerdeJson"], 1)
    ELSE Parsed([kind |-> "InsertPmemDevice", cfg |-> from_slice(body).cfg],
                NoError, 0)

\* parse_put_pmem
parse_put_pmem(body, id_from_path) ==
    IF ~id_from_path.some
        THEN Parsed(NoAction, [kind |-> "EmptyID"], 1)
    ELSE IF ~checked_id(id_from_path.v).ok
        \* checked_id(id)? returns without counting a failure
        THEN Parsed(NoAction, [kind |-> checked_id(id_from_path.v).error], 0)
    ELSE IF ~from_slice(body).ok
        THEN Parsed(NoAction, [kind |-> "SerdeJson"], 1)
    ELSE IF id_from_path.v # from_slice(body).cfg.drive_id
        THEN Parsed(NoAction,
                    [kind |-> "Generic", status |-> BadRequest,
                     message |-> IdMismatch], 1)
    ELSE Parsed([kind |-> "InsertPmemDevice", cfg |-> from_slice(body).cfg],
                NoError, 0)

\* the API server receives PUT /pmem/{id} with a body and parses it
Put(id_from_path, body) ==
    /\ request' = [id |-> id_from_path, body |-> body,
                   result |-> parse_put_pmem(body, id_from_path)]
    /\ last' = Called("parse_put_pmem", request'.result.res)
    /\ UNCHANGED <<dev, panicked, avail, used, used_idx, status, suppress,
                   files, snap, saved, kvm_slots, builder, created, uffd>>

\* a VMM that has no device yet, and a handler that has served nothing
InitIdle ==
    /\ files = [p \in Paths |-> 4096]
    /\ dev = NoDev
    /\ panicked = FALSE
    /\ last = Called("new", "Ok")
    /\ GuestEmpty
    /\ snap = NoState
    /\ saved = NoState
    /\ kvm_slots = <<>>
    /\ Elsewhere

NextApi == \E id \in PathIds, body \in Bodies : Put(id, body)

SpecApi == InitIdle /\ [][NextApi]_vars

----------------------------------------------------------------------------
(* SpecUffd: the page-fault handler process                                 *)
(* (firecracker/examples/uffd/valid_count_handler.rs) reads userfaultfd     *)
(* events.  An address is the number of its page in the memory file.        *)

\* pages of the memory file
NumPages == 3
\* events the handler reads in one behaviour
MaxEvents == 4

Pages == 0 .. (NumPages - 1)
Pagefault(addr) == [kind |-> "Pagefault", addr |-> addr, start |-> 0, end |-> 0]
Remove(start, end) == [kind |-> "Remove", addr |-> 0, start |-> start, end |-> end]
OtherEvent == [kind |-> "Other", addr |-> 0, start |-> 0, end |-> 0]
Events ==
    {Pagefault(a) : a \in Pages}
    \cup {Remove(0, 1), Remove(1, NumPages)}
    \cup {OtherEvent}

\* println!("Pages served: {}", n): the line written to stdout
println(n) == <<"Pages served: ", n>>

\* UffdHandler::serve_pf: the page at addr is copied into the guest
serve_pf(h, addr) == [h EXCEPT !.served = @ \cup {addr}]

\* UffdHandler::update_mem_state_mappings(start, end, Removed)
update_mem_state_mappings(h, start, end) ==
    [h EXCEPT !.removed = @ \cup {a \in Pages : start <= a /\ a < end}]

\* the closure main() hands to Runtime::run, on one event
handle_event(h, event) ==
    IF event.kind \notin {"Pagefault", "Remove"}
        \* panic!("Unexpected event on userfaultfd")
        THEN [h EXCEPT !.running = FALSE]
        ELSE LET h1 == IF event.kind = "Pagefault"
                           THEN [serve_pf(h, event.addr) EXCEPT
                                    !.page_fault_counter = @ + 1]
                           ELSE update_mem_state_mappings(h, event.start,
                                                          event.end)
             IN  [h1 EXCEPT !.stdout =
                     Append(@, println(h1.page_fault_counter))]

\* the handler reads one event from the userfaultfd and handles it
HandleEvent(event) ==
    /\ uffd.running
    /\ Len(uffd.events) < MaxEvents
    /\ uffd' = [handle_event(uffd, event) EXCEPT !.events = Append(@, event)]
    /\ last' = [Called("uffd_event", IF uffd'.running THEN "Ok" ELSE "Panic")
                    EXCEPT !.args = <<event>>]
    /\ UNCHANGED <<dev, panicked, avail, used, used_idx, status, suppress,
                   files, snap, saved, kvm_slots, builder, created, request>>

NextUffd == \E event \in Events : HandleEvent(event)

SpecUffd == InitIdle /\ [][NextUffd]_vars

----------------------------------------------------------------------------
(* The activation state machine (SpecLife). *)

\* C1: under activate, process_queue, read_config, write_config,
\* set_acked_features and save, the device is Inactive or Activated, its state
\* changes only from Inactive to Activated and only in an activate() that
\* returns Ok, and an Activated device stays Activated.
C1_ActivationIsOneWay ==
    [][ /\ dev'.device_state.tag \in {"Inactive", "Activated"}
        /\ is_activated(dev) => is_activated(dev')
        /\ dev'.device_state.tag # dev.device_state.tag =>
              /\ ~is_activated(dev)
              /\ is_activated(dev')
              /\ last'.op = "activate"
              /\ last'.result = "Ok" ]_vars

\* an activated device that was saved while active and then served a kick
C1_Witness ==
    /\ is_activated(dev)
    /\ snap # NoState
    /\ snap.virtio_state.activated
    /\ last.op = "process_queue"
    /\ last.popped = 1

\* C7: an activate() that fails, on queue validation or on the eventfd write,
\* leaves the device state as it was (Inactive) and the activation eventfd
\* unsignaled.
C7_FailedActivateChangesNothing ==
    [][ (last'.op = "activate" /\ last'.result # "Ok") =>
            /\ last'.result \in {"QueueMemoryError", "EventFd"}
            /\ dev'.device_state = dev.device_state
            /\ dev'.activate_event = dev.activate_event
            /\ (dev.activate_event = 0 => ~is_activated(dev')) ]_vars

\* the eventfd write has just failed on a device whose queue is valid
C7_Witness ==
    /\ last.op = "activate"
    /\ last.result = "EventFd"
    /\ ~is_activated(dev)
    /\ dev.activate_event = 0

----------------------------------------------------------------------------
(* Virtqueue service (Spec). *)

\* the step is a process_queue() call that read the kick and ran handle_queue
Serviced == last'.op = "process_queue" /\ last'.result # "EventFd"

\* the positions in avail of the chains this step popped, the failing one
\* included
PoppedNow == (dev.queues[1].next_avail + 1) .. dev'.queues[1].next_avail

\* the positions in avail of the chains this step completed: all it popped,
\* but for the chain on which it ended when it did not return Ok
ServedNow ==
    IF last'.result = "Ok"
        THEN PoppedNow
        ELSE (dev.queues[1].next_avail + 1) .. (dev'.queues[1].next_avail - 1)

\* the used-ring element of the chain at position k of avail
Completion(k) == [id |-> avail[k].index, len |-> STATUS_LEN]

\* the position in avail of the chain whose head is descriptor id
PositionOf(id) == CHOOSE k \in 1 .. Len(avail) : avail[k].index = id

\* the used ring lists heads in the order the guest submitted them
InSubmissionOrder(u) ==
    \A i, j \in 1 .. Len(u) : i < j => PositionOf(u[i].id) < PositionOf(u[j].id)

\* the chain at position k of avail has a second descriptor
IsFlushRequest(k) == avail[k].next # NoNext

\* C2 as claimed: a call that services a kick writes 0 at the second
\* descriptor of every flush request that was pending and records its head
\* with length 4, and the used ring is in submission order.
C2_EveryPendingFlushServed ==
    [][ Serviced =>
          /\ \A k \in (dev.queues[1].next_avail + 1) .. Len(avail) :
                IsFlushRequest(k) =>
                    /\ avail[k].next \in DOMAIN status'
                    /\ status'[avail[k].next] = STATUS_OK
                    /\ \E j \in 1 .. Len(used') : used'[j] = Completion(k)
          /\ InSubmissionOrder(used') ]_vars

\* C2 as amended: a call that services a kick serves the pending chains in
\* submission order until none is left or one fails; for each chain served,
\* whatever its header, it writes 0 at the second descriptor and appends the
\* head with length 4 to the used ring; a call that returns Ok has served
\* every pending chain.
C2_ServedChainsCompleted ==
    [][ Serviced =>
          /\ last'.result = "Ok" => dev'.queues[1].next_avail = Len(avail)
          /\ \A k \in ServedNow :
                /\ IsFlushRequest(k)
                /\ status'[avail[k].next] = STATUS_OK
          /\ used' = used \o [i \in 1 .. Cardinality(ServedNow) |->
                                Completion(dev.queues[1].next_avail + i)]
          /\ InSubmissionOrder(used') ]_vars

\* one call has just served two flush requests, one with an unknown opcode,
\* whose heads the guest submitted in descending descriptor order
C2_Witness ==
    /\ last.op = "process_queue"
    /\ last.result = "Ok"
    /\ last.popped >= 2
    /\ Len(used) >= 2
    /\ used[1].id > used[2].id
    /\ \E k \in 1 .. Len(avail) : avail[k].header = 1
    /\ \A k \in 1 .. Len(avail) : status[avail[k].next] = STATUS_OK

\* C3 as claimed: after a call whose handle_queue returns Ok, the used index
\* is its value before the call plus the number of heads the call processed.
C3_UsedIdxAdvancesByProcessed ==
    [][ (Serviced /\ last'.result = "Ok") =>
            used_idx' = (used_idx + last'.popped) % U16 ]_vars

\* C3 as amended: after a call whose handle_queue returns Ok, the used index
\* is its value before the call, plus the number of heads the call processed,
\* plus the number of completions earlier calls recorded before they ended
\* with an error; it is the number of elements written to the used ring.
C3_UsedIdxPublishesAllRecorded ==
    [][ (Serviced /\ last'.result = "Ok") =>
            /\ used_idx' = (used_idx + last'.popped
                            + (Len(used) - used_idx)) % U16
            /\ used_idx' = Len(used') % U16 ]_vars

\* a call that popped one head has published two completions: the first was
\* recorded by a call that then faulted on the second chain
C3_Witness ==
    /\ last.op = "process_queue"
    /\ last.result = "Ok"
    /\ last.popped = 1
    /\ used_idx = 2
    /\ Len(avail) = 3
    /\ avail[2].next = FaultAddr

\* C4: a call that meets a one-descriptor chain logs an error, leaves the
\* used index where it was, raises no interrupt, and the device lives on.
C4_ShortChainLoggedAndDropped ==
    [][ (Serviced /\ \E k \in PoppedNow : ~IsFlushRequest(k)) =>
            /\ last'.logged
            /\ used_idx' = used_idx
            /\ ~last'.irq
            /\ ~panicked' ]_vars

\* the step is a call that ended on a guest-memory or queue error
Failed == Serviced /\ last'.result \in {"GuestMemory", "Queue"}

\* C5 as claimed: a call that ends on an error leaves the failing head as the
\* queue's next head, so that the next kick retries it.
C5_NextKickRetriesFailingHead ==
    [][ Failed =>
            dev'.queues[1].next_avail
                = dev.queues[1].next_avail + last'.popped - 1 ]_vars

\* no chain whose status write faults is ever in the used ring
FaultedNeverCompleted ==
    \A k \in 1 .. Len(avail) :
        avail[k].next = FaultAddr =>
            \A j \in 1 .. Len(used) : used[j].id # avail[k].index

\* C5 as amended: a call that ends on an error ends the notification without
\* resetting the queue: the heads it consumed, the failing one included, stay
\* consumed, the completions recorded stay recorded and unpublished, and the
\* device stays Activated and alive.  The failing request is dropped: it is
\* never completed.  A later call that returns Ok serves every request after
\* it.
C5_FailingHeadDroppedRestServed ==
    [][ /\ Failed =>
            /\ dev'.queues[1].next_avail
                  = dev.queues[1].next_avail + last'.popped
            /\ SubSeq(used', 1, Len(used)) = used
            /\ Len(used') = Len(used) + last'.popped - 1
            /\ dev'.queues[1].next_used = Len(used')
            /\ used_idx' = used_idx
            /\ dev'.device_state = dev.device_state
            /\ ~panicked'
        /\ FaultedNeverCompleted'
        /\ (Serviced /\ last'.result = "Ok") =>
            \A k \in 1 .. Len(avail) :
                avail[k].next \in StatusAddrs =>
                    \E j \in 1 .. used_idx' : used'[j] = Completion(k) ]_vars

\* a call has faulted on the first chain, and a later call has served and
\* published the chain after it
C5_Witness ==
    /\ last.op = "process_queue"
    /\ last.result = "Ok"
    /\ Len(avail) >= 2
    /\ avail[1].next = FaultAddr
    /\ avail[2].next # FaultAddr
    /\ used_idx = Len(avail) - 1
    /\ used[1].id = avail[2].index

\* C6 as claimed: after a call that services a kick, an interrupt was raised
\* if and only if the guest has not suppressed notifications.
C6_IrqIffNotSuppressed ==
    (last.op = "process_queue" /\ last.result # "EventFd" /\ ~panicked) =>
        (last.irq <=> ~suppress)

\* C6 as amended: after a process_queue() call, an interrupt was raised if
\* and only if handle_queue returned Ok and the guest has not suppressed
\* notifications; a call that ends on an error raises none.
C6_IrqIffOkAndNotSuppressed ==
    last.op = "process_queue" =>
        (last.irq <=> (last.result = "Ok" /\ ~suppress))

\* a call has served a chain for a guest that suppressed notifications
C6_Witness ==
    /\ last.op = "process_queue"
    /\ last.result = "Ok"
    /\ last.popped >= 1
    /\ suppress
    /\ ~last.irq
    /\ dev.irq_status = 1

----------------------------------------------------------------------------
(* Construction and snapshot (SpecPersist). *)

\* C8: the size a device publishes in its config space, whether Pmem::new or
\* Pmem::new_with_queues built it, is its backing file's size rounded up to
\* 2 MiB: a multiple of 2 MiB, and no less than the file.
C8_MappingSizeIsAlignedUp ==
    dev # NoDev =>
        /\ dev.config_space.size = align_up(dev.backing_file_size, ALIGNMENT)
        /\ dev.config_space.size % ALIGNMENT = 0
        /\ dev.config_space.size >= dev.backing_file_size

\* the device has just been restored from a state saved from a device
Restored == last.op = "restore" /\ last.result = "Ok"

\* C9: a device restored over an unchanged backing file reports the start
\* and size the saved device reported, and its first queue has the saved
\* device's descriptor-table address.
C9_RestoreKeepsConfigSpace ==
    (Restored /\ files[saved.backing_file_path] = saved.backing_file_size) =>
        /\ dev.config_space.start = saved.config_space.start
        /\ dev.config_space.size = saved.config_space.size
        /\ dev.queues[1].desc_table = saved.desc_tables[1]

\* C10: restore(save(D)) has D's drive_id, root_device, backing_file_path,
\* guest_address, mem_slot, shared, avail_features, acked_features,
\* activation flag and queue descriptor addresses.
C10_SaveRestoreKeepsFields ==
    Restored =>
        /\ dev.drive_id = saved.drive_id
        /\ dev.root_device = saved.root_device
        /\ dev.backing_file_path = saved.backing_file_path
        /\ dev.config_space.start = saved.config_space.start
        /\ dev.mem_slot = saved.mem_slot
        /\ dev.shared = saved.shared
        /\ dev.avail_features = saved.avail_features
        /\ dev.acked_features = saved.acked_features
        /\ is_activated(dev) = saved.activated
        /\ [i \in 1 .. Len(dev.queues) |-> dev.queues[i].desc_table]
              = saved.desc_tables

\* a shared root device, attached second, with its queue programmed, its
\* features acknowledged and activated, has been saved and restored
C10_Witness ==
    /\ Restored
    /\ saved.activated
    /\ saved.acked_features = {VIRTIO_F_VERSION_1}
    /\ saved.mem_slot = MEM_SLOTS_START + 1
    /\ saved.config_space.start = GuestBase + ALIGNMENT
    /\ saved.desc_tables[1] = 8192
    /\ saved.root_device
    /\ saved.shared
    /\ saved.drive_id = "pmem1"

\* C11: a device restored over a backing file that has grown since the save
\* reports in its config space the size the saved device reported.
C11_GrownFileKeepsSavedSize ==
    (Restored /\ files[saved.backing_file_path] > saved.backing_file_size) =>
        dev.config_space.size = saved.config_space.size

\* C18: a restore that returns a device has registered one memory slot, with
\* the saved mem_slot and guest_address, the mapping size of the device, the
\* address mmap returned for it and flags 0; a restore that fails on the
\* queues or on the construction of the device has registered none.
C18_SlotRegisteredOnceAfterMapping ==
    last.op = "restore" =>
        /\ Len(kvm_slots) <= 1
        /\ last.result = "Ok" =>
              /\ kvm_slots = <<[slot            |-> snap.mem_slot,
                                guest_phys_addr |-> snap.guest_address,
                                memory_size     |-> dev.config_space.size,
                                userspace_addr  |-> last.args[2],
                                flags           |-> 0]>>
              /\ dev.mmaped_file = last.args[2]
              /\ \A i \in 1 .. Len(dev.queues) :
                    Queue_is_valid(dev.queues[i], last.args[1])
        /\ last.result \in {"VirtioState", "BackingFileIo"} =>
              /\ kvm_slots = <<>>
              /\ dev = NoDev

\* a restore has failed on the queues of a device attached second, after a
\* save of that device
C18_Witness ==
    /\ last.op = "restore"
    /\ last.result = "VirtioState"
    /\ snap.mem_slot = MEM_SLOTS_START + 1
    /\ snap.virtio_state.queues[1].desc_table = MemSize
    /\ kvm_slots = <<>>

\* C19: a restore from a state saved as activated returns a device that is
\* Activated with the guest memory given to restore, and one from a state
\* saved as inactive returns an Inactive device; neither has signalled the
\* activation eventfd; an activate() that then succeeds signals it once.
C19_RestoreActivatesSilently ==
    [][ /\ (last'.op = "restore" /\ last'.result = "Ok") =>
              /\ dev'.activate_event = 0
              /\ snap.virtio_state.activated =>
                    dev'.device_state = Activated(last'.args[1])
              /\ ~snap.virtio_state.activated => dev'.device_state = Inactive
        /\ (last'.op = "activate" /\ last'.result = "Ok") =>
              /\ dev'.activate_event = dev.activate_event + 1
              /\ is_activated(dev') ]_vars

\* a device saved as activated has been restored with guest memory 2, and
\* its new eventfd has not been signalled
C19_Witness ==
    /\ Restored
    /\ snap.virtio_state.activated
    /\ dev.device_state = Activated(2)
    /\ last.args[1] = 2
    /\ dev.activate_event = 0

----------------------------------------------------------------------------
(* The config space (SpecConfig). *)

\* byte k (from 0) of the 16-byte record {start, size}, both little endian
\* and both below 2^32
ConfigByte(c, k) ==
    LET x == IF k < 8 THEN c.start ELSE c.size
        j == k % 8
    IN  IF j >= 4 THEN 0 ELSE (x \div (256 ^ j)) % 256

\* C13: read_config(offset, buf) leaves in buf the bytes of the record
\* {start, size} from offset up to the record's end or the buffer's, and the
\* bytes buf had before everywhere else; for an offset at or past the end of
\* the record buf is unchanged.
C13_ReadConfigCopiesWindow ==
    last.op = "read_config" =>
        LET offset == last.args[1]
            n == last.args[2]
        IN  /\ Len(last.data) = n
            /\ \A i \in 1 .. n :
                  last.data[i] = IF offset + i - 1 < 16
                                     THEN ConfigByte(dev.config_space, offset + i - 1)
                                     ELSE Filler

\* the 16 bytes read at offset 0 from the device of 4096 bytes at
\* 0x40000000: start = 0x40000000, size = 0x200000
C13_Witness ==
    /\ last.op = "read_config"
    /\ last.args = <<0, 16>>
    /\ dev.backing_file_size = 4096
    /\ dev.config_space.start = GuestBase
    /\ last.data = <<0, 0, 0, 64, 0, 0, 0, 0, 0, 0, 32, 0, 0, 0, 0, 0>>

\* C14: write_config, whatever its offset and data, changes no field of the
\* device and nothing else, so every read_config returns after it what it
\* returned before it.
C14_WriteConfigChangesNothing ==
    [][ last'.op = "write_config" =>
          /\ dev' = dev
          /\ UNCHANGED <<panicked, avail, used, used_idx, status, suppress,
                         files, snap, saved, kvm_slots, builder, created,
                         request, uffd>>
          /\ \A o \in ConfigOffsets, n \in ConfigLens :
                read_config(dev', o, [i \in 1 .. n |-> Filler])
                    = read_config(dev, o, [i \in 1 .. n |-> Filler]) ]_vars

\* eight bytes of 255 have been written at offset 0 of an attached device
\* whose config space still holds its start and size
C14_Witness ==
    /\ last.op = "write_config"
    /\ last.args = <<0, <<255, 255, 255, 255, 255, 255, 255, 255>> >>
    /\ dev.config_space.start = GuestBase
    /\ dev.config_space.size = 2 * ALIGNMENT

----------------------------------------------------------------------------
(* The Builder (SpecBuilder). *)

\* C12: when mmap fails while a device is created, creation fails with a
\* BackingFileIo error, and no device the Builder holds has a failed or null
\* host mapping address.
C12_FailedMappingFailsCreation ==
    /\ (last.op = "build" /\ last.args[2] = MAP_FAILED) =>
            last.result = "BackingFileIo"
    /\ \A i \in 1 .. Len(builder.devices) :
            builder.devices[i].mmaped_file \notin {0, MAP_FAILED}

\* C16: after any sequence of build operations every device the Builder
\* holds has a mem_slot of at least MEM_SLOTS_START, and no two of them have
\* the same mem_slot.
C16_SlotsReservedAndUnique ==
    /\ \A i \in 1 .. Len(builder.devices) :
            builder.devices[i].mem_slot >= MEM_SLOTS_START
    /\ \A i, j \in 1 .. Len(builder.devices) :
            i # j => builder.devices[i].mem_slot # builder.devices[j].mem_slot

----------------------------------------------------------------------------
(* The API server (SpecApi). *)

\* the path carries an id, and it is a valid identifier
PathIdValid ==
    /\ request.id.some
    /\ request.id.v # <<>>
    /\ \A i \in 1 .. Len(request.id.v) :
          request.id.v[i] \in {"p", "0", "1", "_"}

\* C15: parse_put_pmem returns the action InsertPmemDevice(config), with the
\* config of the body, if and only if the path has a valid id, the body
\* deserializes as a PmemDeviceConfig and the id equals the body's drive_id;
\* when the id is valid, the body deserializes and the two differ, it returns
\* the 400 error with the message "The id from the path does not match the
\* id from the body!"; every error comes without an action.
C15_InsertIffIdsAgree ==
    request # NoRequest =>
        LET r == request.result
            body == from_slice(request.body)
        IN  /\ (r.res = "Ok" /\ r.action.kind = "InsertPmemDevice") <=>
                  /\ PathIdValid
                  /\ body.ok
                  /\ request.id.v = body.cfg.drive_id
            /\ r.res = "Ok" => r.action.cfg = body.cfg
            /\ (PathIdValid /\ body.ok /\ request.id.v # body.cfg.drive_id) =>
                  /\ r.res = "Err"
                  /\ r.error.kind = "Generic"
                  /\ r.error.status = "400 Bad Request"
                  /\ r.error.message =
                        "The id from the path does not match the id from the body!"
            /\ r.res = "Err" => r.action = NoAction

\* PUT /pmem/p0 with a well-formed body for drive p_1 has been rejected
C15_Witness ==
    /\ request # NoRequest
    /\ request.id = Some(Id_p0)
    /\ request.body = FullBody(Id_p1, TRUE, FALSE)
    /\ request.result.res = "Err"
    /\ request.result.error.kind = "Generic"
    /\ request.result.action = NoAction

----------------------------------------------------------------------------
(* The page-fault handler (SpecUffd). *)

\* the page-fault events among the events read so far
PagefaultsRead ==
    Cardinality({i \in 1 .. Len(uffd.events) :
                    uffd.events[i].kind = "Pagefault"})

\* C17: after any sequence of events the counter is the number of page-fault
\* events served, and stdout holds one line "Pages served: <n>" for each of
\* them, the i-th with n = i, and no other line.
C17_OneLinePerServedPage ==
    /\ uffd.page_fault_counter = PagefaultsRead
    /\ Len(uffd.stdout) = PagefaultsRead
    /\ \A i \in 1 .. Len(uffd.stdout) : uffd.stdout[i] = <<"Pages served: ", i>>

----------------------------------------------------------------------------
(* Completions across kicks (SpecFair). *)

\* C21: over any sequence of kicks, whether or not their processing ends on
\* an error, no head is in the used ring twice, the guest never sees more
\* completions than heads it made available, and every completion written
\* to the used ring is eventually covered by the used-ring index.
C21_CompletionsEventuallyPublished ==
    /\ [](\A i, j \in 1 .. Len(used) : used[i].id = used[j].id => i = j)
    /\ [](used_idx <= Len(avail))
    /\ \A k \in 1 .. MaxHeads : (Len(used) >= k) ~> (used_idx >= k)

====
